---------------------------- MODULE Spec2Model ----------------------------
(***************************************************************************)
(* Model of the two Go set types of this repository:                       *)
(*   maps.Set[T]  (src/maps/set.go)  - the map-backed set behind sets.Set  *)
(*   typ.Set[T]   (src/set.go)       - the free-standing set               *)
(* Both are `map[T]struct{}`.  A Go map value is a reference: the model    *)
(* keeps a heap that maps every allocated map (a reference, a positive     *)
(* number) to its set of keys, and every method is a heap transformer      *)
(* returning the new heap and the method's return value.  Only values      *)
(* whose Go equality is reflexive are modelled (so no floating-point NaN). *)
(***************************************************************************)
EXTENDS Integers, Sequences, FiniteSets, TLC

\* Bound of the model: element values are 1..MaxVal.
MaxVal == 3

Vals == 1..MaxVal

\* Element values of a second element type (strings), for CartesianProduct.
Strs == {"x", "y"}

\* The operands of the documented examples: {1 2 3} and {3 4 5}.
ExampleA == {1, 2, 3}

ExampleB == {3, 4, 5}

VARIABLES
    heap,     \* allocated maps: reference -> set of keys
    a,        \* reference held by the client: the first set
    b,        \* reference held by the client: the second set (may equal a)
    c,        \* reference to the set returned by the last Clone / algebra call, 0 if none
    last,     \* the last call made: operation, package, operands, return values
    present,  \* history of set a: present[v] iff the last Add/Remove of v on a was an Add
    visit,    \* the client's Range visitor
    tb        \* element type of set b: "int" or "string" (set a always holds ints)

vars == <<heap, a, b, c, last, present, visit, tb>>

--------------------------------------------------------------------------
(* Go language semantics used by the methods *)

\* A `for v := range m` over a map visits every key once, in an order Go leaves
\* unspecified: every permutation of the keys is a possible order.
KeyOrders(keys) ==
    {o \in [1..Cardinality(keys) -> keys] : \A i, j \in DOMAIN o : o[i] = o[j] => i = j}

\* make(Set[T]): a new, empty map that no existing reference designates.
NewRef(h) == CHOOSE r \in 1..(Cardinality(DOMAIN h) + 1) : r \notin DOMAIN h

Make(h) == LET r == NewRef(h) IN [heap |-> h @@ (r :> {}), ret |-> r]

--------------------------------------------------------------------------
(* package maps: src/maps/set.go *)

\* A method that loops over a map takes the order of that loop as a parameter:
\* a member of KeyOrders of the map's keys when the loop starts.

maps_Len(h, s) == Cardinality(h[s])

maps_Has(h, s, value) == value \in h[s]

\* Mutant of Add: the Has check is forgotten.
maps_Add_NoCheck(h, s, value) ==
    [heap |-> [h EXCEPT ![s] = @ \cup {value}], ret |-> TRUE]

maps_Add(h, s, value) ==
    IF maps_Has(h, s, value)
    THEN [heap |-> h, ret |-> FALSE]
    ELSE [heap |-> [h EXCEPT ![s] = @ \cup {value}], ret |-> TRUE]

\* Mutant of Remove: the Has check is inverted, so only absent values are deleted.
maps_Remove_Inverted(h, s, value) ==
    IF maps_Has(h, s, value)
    THEN [heap |-> h, ret |-> FALSE]
    ELSE [heap |-> [h EXCEPT ![s] = @ \ {value}], ret |-> TRUE]

maps_Remove(h, s, value) ==
    IF ~maps_Has(h, s, value)
    THEN [heap |-> h, ret |-> FALSE]
    ELSE [heap |-> [h EXCEPT ![s] = @ \ {value}], ret |-> TRUE]

\* The function literals handed to Range are closures: f.kind names the
\* literal, the other fields of f are the variables it captured, and st is
\* the state it reads and writes.  Each returns st and go, its boolean result.

\* func(value T) bool of AddSet: f.s is the receiver.
AddSet_func(f, st, value) ==
    LET r == maps_Add(st.heap, f.s, value)
    IN  [st |-> [heap |-> r.heap, n |-> IF r.ret THEN st.n + 1 ELSE st.n],
         go |-> TRUE]

\* func(value T) bool of RemoveSet: f.s is the receiver.
RemoveSet_func(f, st, value) ==
    LET r == maps_Remove(st.heap, f.s, value)
    IN  [st |-> [heap |-> r.heap, n |-> IF r.ret THEN st.n + 1 ELSE st.n],
         go |-> TRUE]

\* func(value T) bool of SymDiff: f.s is the receiver, f.result the set built.
SymDiff_func(f, st, value) ==
    [st |-> IF ~maps_Has(st, f.s, value)
            THEN maps_Add(st, f.result, value).heap ELSE st,
     go |-> TRUE]

\* The client's visitor.  Its result on its i-th call, made with value v: it
\* returns false for the values in its stop set and on call number stopAt
\* (0: no such call).
Visitor(vis, i, v) == ~(v \in vis.stop \/ i = vis.stopAt)

\* The client's visitor as a closure: its state is the sequence of the values
\* it has been called with.
Client_func(f, st, value) ==
    [st |-> Append(st, value), go |-> Visitor(f.vis, Len(st) + 1, value)]

\* The call f(value).
Call(f, st, value) ==
    CASE f.kind = "AddSet" -> AddSet_func(f, st, value)
      [] f.kind = "RemoveSet" -> RemoveSet_func(f, st, value)
      [] f.kind = "SymDiff" -> SymDiff_func(f, st, value)
      [] f.kind = "Client" -> Client_func(f, st, value)

\* Mutant of Range: the break is missing.
maps_Range_NoBreak(st0, ord, f) ==
    LET run[i \in 0..Len(ord)] ==
            IF i = 0 THEN [st |-> st0, go |-> TRUE]
            ELSE Call(f, run[i - 1].st, ord[i])
    IN  run[Len(ord)].st

\* Range over the keys in order ord with visitor f, whose state starts as st0
\* and is returned.  The loop breaks after the first call that returns false.
maps_Range(st0, ord, f) ==
    LET run[i \in 0..Len(ord)] ==
            IF i = 0 THEN [st |-> st0, go |-> TRUE]
            ELSE IF run[i - 1].go THEN Call(f, run[i - 1].st, ord[i])
                 ELSE run[i - 1]
    IN  run[Len(ord)].st

\* Mutant of AddSet: the result of Add is ignored and every visited value counted.
maps_AddSet_CountAll(h, s, set, ord) ==
    LET fin == maps_Range([heap |-> h, n |-> 0], ord, [kind |-> "AddSet", s |-> s])
    IN  [heap |-> fin.heap, ret |-> Len(ord)]

\* ord: the order in which set.Range visits the keys of `set`.
maps_AddSet(h, s, set, ord) ==
    LET fin == maps_Range([heap |-> h, n |-> 0], ord, [kind |-> "AddSet", s |-> s])
    IN  [heap |-> fin.heap, ret |-> fin.n]

maps_RemoveSet(h, s, set, ord) ==
    LET fin == maps_Range([heap |-> h, n |-> 0], ord, [kind |-> "RemoveSet", s |-> s])
    IN  [heap |-> fin.heap, ret |-> fin.n]

\* Mutant of Clone: the map itself is returned, not a copy.
maps_Clone_Shallow(h, s, ord) == [heap |-> h, ret |-> s]

\* ord: the order of `for v := range s`; loop[i] is the heap after i passes.
maps_Clone(h, s, ord) ==
    LET clone == Make(h)
        loop[i \in 0..Len(ord)] ==
            IF i = 0 THEN clone.heap ELSE maps_Add(loop[i - 1], clone.ret, ord[i]).heap
    IN  [heap |-> loop[Len(ord)], ret |-> clone.ret]

\* Mutant of Intersect: the membership test on other is forgotten.
maps_Intersect_NoTest(h, s, other, ord) ==
    LET result == Make(h)
        loop[i \in 0..Len(ord)] ==
            IF i = 0 THEN result.heap ELSE maps_Add(loop[i - 1], result.ret, ord[i]).heap
    IN  [heap |-> loop[Len(ord)], ret |-> result.ret]

maps_Intersect(h, s, other, ord) ==
    LET result == Make(h)
        loop[i \in 0..Len(ord)] ==
            IF i = 0 THEN result.heap
            ELSE IF maps_Has(loop[i - 1], other, ord[i])
                 THEN maps_Add(loop[i - 1], result.ret, ord[i]).heap
                 ELSE loop[i - 1]
    IN  [heap |-> loop[Len(ord)], ret |-> result.ret]

\* Mutant of Union: other is added to s itself, without cloning s first.
maps_Union_InPlace(h, s, other, o1, o2) ==
    [heap |-> maps_AddSet(h, s, other, o2).heap, ret |-> s]

\* o1: the order of Clone's loop over s; o2: the order of other.Range.
maps_Union(h, s, other, o1, o2) ==
    LET result == maps_Clone(h, s, o1)
        r == maps_AddSet(result.heap, result.ret, other, o2)
    IN  [heap |-> r.heap, ret |-> result.ret]

maps_SetDiff(h, s, other, ord) ==
    LET result == Make(h)
        loop[i \in 0..Len(ord)] ==
            IF i = 0 THEN result.heap
            ELSE IF ~maps_Has(loop[i - 1], other, ord[i])
                 THEN maps_Add(loop[i - 1], result.ret, ord[i]).heap
                 ELSE loop[i - 1]
    IN  [heap |-> loop[Len(ord)], ret |-> result.ret]

\* o1: the order of SetDiff's loop over s; o2: the order of other.Range.
maps_SymDiff(h, s, other, o1, o2) ==
    LET result == maps_SetDiff(h, s, other, o1)
    IN  [heap |-> maps_Range(result.heap, o2,
                             [kind |-> "SymDiff", s |-> s, result |-> result.ret]),
         ret |-> result.ret]

--------------------------------------------------------------------------
(* package typ: src/set.go *)

typ_Has(h, s, value) == value \in h[s]

typ_Set(h, s, value) ==
    IF typ_Has(h, s, value)
    THEN [heap |-> h, ret |-> FALSE]
    ELSE [heap |-> [h EXCEPT ![s] = @ \cup {value}], ret |-> TRUE]

typ_Unset(h, s, value) ==
    IF ~typ_Has(h, s, value)
    THEN [heap |-> h, ret |-> FALSE]
    ELSE [heap |-> [h EXCEPT ![s] = @ \ {value}], ret |-> TRUE]

typ_Clone(h, s, ord) ==
    LET clone == Make(h)
        loop[i \in 0..Len(ord)] ==
            IF i = 0 THEN clone.heap ELSE typ_Set(loop[i - 1], clone.ret, ord[i]).heap
    IN  [heap |-> loop[Len(ord)], ret |-> clone.ret]

typ_Intersect(h, s, other, ord) ==
    LET result == Make(h)
        loop[i \in 0..Len(ord)] ==
            IF i = 0 THEN result.heap
            ELSE IF typ_Has(loop[i - 1], other, ord[i])
                 THEN typ_Set(loop[i - 1], result.ret, ord[i]).heap
                 ELSE loop[i - 1]
    IN  [heap |-> loop[Len(ord)], ret |-> result.ret]

\* o1: the order of Clone's loop over s; o2: the order of the loop over other.
typ_Union(h, s, other, o1, o2) ==
    LET result == typ_Clone(h, s, o1)
        loop[i \in 0..Len(o2)] ==
            IF i = 0 THEN result.heap ELSE typ_Set(loop[i - 1], result.ret, o2[i]).heap
    IN  [heap |-> loop[Len(o2)], ret |-> result.ret]

\* Mutant of SetDiff: the membership test is not negated.
typ_SetDiff_NotNegated(h, s, other, ord) ==
    LET result == Make(h)
        loop[i \in 0..Len(ord)] ==
            IF i = 0 THEN result.heap
            ELSE IF typ_Has(loop[i - 1], other, ord[i])
                 THEN typ_Set(loop[i - 1], result.ret, ord[i]).heap
                 ELSE loop[i - 1]
    IN  [heap |-> loop[Len(ord)], ret |-> result.ret]

typ_SetDiff(h, s, other, ord) ==
    LET result == Make(h)
        loop[i \in 0..Len(ord)] ==
            IF i = 0 THEN result.heap
            ELSE IF ~typ_Has(loop[i - 1], other, ord[i])
                 THEN typ_Set(loop[i - 1], result.ret, ord[i]).heap
                 ELSE loop[i - 1]
    IN  [heap |-> loop[Len(ord)], ret |-> result.ret]

\* Mutant of SymDiff: the second loop repeats the first loop's test.
typ_SymDiff_SameTest(h, s, other, o1, o2) ==
    LET result == Make(h)
        first[i \in 0..Len(o1)] ==
            IF i = 0 THEN result.heap
            ELSE IF ~typ_Has(first[i - 1], other, o1[i])
                 THEN typ_Set(first[i - 1], result.ret, o1[i]).heap
                 ELSE first[i - 1]
        second[i \in 0..Len(o2)] ==
            IF i = 0 THEN first[Len(o1)]
            ELSE IF ~typ_Has(second[i - 1], other, o2[i])
                 THEN typ_Set(second[i - 1], result.ret, o2[i]).heap
                 ELSE second[i - 1]
    IN  [heap |-> second[Len(o2)], ret |-> result.ret]

\* o1: the order of the loop over s; o2: the order of the loop over other.
typ_SymDiff(h, s, other, o1, o2) ==
    LET result == Make(h)
        first[i \in 0..Len(o1)] ==
            IF i = 0 THEN result.heap
            ELSE IF ~typ_Has(first[i - 1], other, o1[i])
                 THEN typ_Set(first[i - 1], result.ret, o1[i]).heap
                 ELSE first[i - 1]
        second[i \in 0..Len(o2)] ==
            IF i = 0 THEN first[Len(o1)]
            ELSE IF ~typ_Has(second[i - 1], s, o2[i])
                 THEN typ_Set(second[i - 1], result.ret, o2[i]).heap
                 ELSE second[i - 1]
    IN  [heap |-> second[Len(o2)], ret |-> result.ret]

\* SetProduct[TA, TB]{valueA, valueB}: a struct, equal componentwise.
SetProduct(valueA, valueB) == [A |-> valueA, B |-> valueB]

\* Mutant of CartesianProduct: result.Set is placed after the inner loop, so
\* each valueA is paired with the last valueB only.
typ_CartesianProduct_AfterLoop(h, sa, sb, oa, ob) ==
    LET result == Make(h)
        outer[i \in 0..Len(oa)] ==
            IF i = 0 THEN result.heap
            ELSE IF ob = <<>> THEN outer[i - 1]
                 ELSE typ_Set(outer[i - 1], result.ret,
                              SetProduct(oa[i], ob[Len(ob)])).heap
    IN  [heap |-> outer[Len(oa)], ret |-> result.ret]

\* oa: the order of the outer loop over sa; ob: the order of the inner loop
\* over sb (taken to be the same order on every pass of the outer loop).
\* outer[i] is the heap after i passes of the outer loop, inner[i][j] the heap
\* after j passes of the inner loop within pass i.
typ_CartesianProduct(h, sa, sb, oa, ob) ==
    LET result == Make(h)
        outer[i \in 0..Len(oa)] ==
            IF i = 0 THEN result.heap
            ELSE LET inner[j \in 0..Len(ob)] ==
                         IF j = 0 THEN outer[i - 1]
                         ELSE typ_Set(inner[j - 1], result.ret,
                                      SetProduct(oa[i], ob[j])).heap
                 IN  inner[Len(ob)]
    IN  [heap |-> outer[Len(oa)], ret |-> result.ret]

--------------------------------------------------------------------------
(* The client's state *)

NoCall == [op |-> "none", pkg |-> "none", x |-> 0, y |-> 0, v |-> 0,
           ok |-> FALSE, n |-> 0, calls |-> <<>>]

NoVisitor == [stop |-> {}, stopAt |-> 0]

\* The references the client holds.
Held == {a, b} \cup (IF c = 0 THEN {} ELSE {c})

\* The heap once the set that only c designated is dropped (c is overwritten).
Keep(h) == [r \in DOMAIN h \ ({c} \ {a, b}) |-> h[r]]

\* Go's type check of a method call x.M(y): both sets hold the same element type.
SameType(x, y) == x = y \/ tb = "int"

--------------------------------------------------------------------------
(* Spec: one set built from empty, its clone, and single-value calls on both *)

Init ==
    /\ heap = (1 :> {})
    /\ a = 1
    /\ b = 1
    /\ c = 0
    /\ last = NoCall
    /\ present = [v \in Vals |-> FALSE]
    /\ visit = NoVisitor
    /\ tb = "int"

Mutated(r, op, pkg, x, v) ==
    /\ heap' = r.heap
    /\ last' = [NoCall EXCEPT !.op = op, !.pkg = pkg, !.x = x, !.v = v, !.ok = r.ret]
    /\ present' = IF x # a THEN present
                  ELSE [present EXCEPT ![v] = (op = "Add")]
    /\ UNCHANGED <<a, b, c, visit, tb>>

CallAdd(x, v) == Mutated(maps_Add(heap, x, v), "Add", "maps", x, v)

CallRemove(x, v) == Mutated(maps_Remove(heap, x, v), "Remove", "maps", x, v)

CallSet(x, v) == Mutated(typ_Set(heap, x, v), "Add", "typ", x, v)

CallUnset(x, v) == Mutated(typ_Unset(heap, x, v), "Remove", "typ", x, v)

Returned(r, op, pkg, x, y) ==
    /\ heap' = r.heap
    /\ c' = r.ret
    /\ last' = [NoCall EXCEPT !.op = op, !.pkg = pkg, !.x = x, !.y = y]
    /\ UNCHANGED <<a, b, present, visit, tb>>

CallClone ==
    \E ord \in KeyOrders(heap[a]) :
        Returned(maps_Clone(Keep(heap), a, ord), "Clone", "maps", a, 0)

CallTypClone ==
    \E ord \in KeyOrders(heap[a]) :
        Returned(typ_Clone(Keep(heap), a, ord), "Clone", "typ", a, 0)

Next ==
    \/ \E x \in Held, v \in Vals : CallAdd(x, v)
    \/ \E x \in Held, v \in Vals : CallRemove(x, v)
    \/ \E x \in Held, v \in Vals : CallSet(x, v)
    \/ \E x \in Held, v \in Vals : CallUnset(x, v)
    \/ CallClone
    \/ CallTypClone

Spec == Init /\ [][Next]_vars

--------------------------------------------------------------------------
(* SpecOps: one call of a two-set operation on operands of any contents *)

InitOps ==
    /\ a = 1
    /\ \/ /\ b = 1 /\ tb = "int"
          /\ \E SA \in SUBSET Vals : heap = (1 :> SA)
       \/ /\ b = 2 /\ tb = "int"
          /\ \E SA \in SUBSET Vals, SB \in SUBSET Vals : heap = (1 :> SA @@ 2 :> SB)
       \/ /\ b = 2 /\ tb = "int"
          /\ heap = (1 :> ExampleA @@ 2 :> ExampleB)
       \/ /\ b = 2 /\ tb = "string"
          /\ \E SA \in SUBSET Vals, SB \in SUBSET Strs : heap = (1 :> SA @@ 2 :> SB)
    /\ c = 0
    /\ last = NoCall
    /\ present = [v \in Vals |-> FALSE]
    /\ visit = NoVisitor

\* The client makes its call on the operands as constructed.
Fresh == last.op = "none"

CallIntersect(x, y) ==
    /\ Fresh /\ SameType(x, y)
    /\ \E ord \in KeyOrders(heap[x]) :
          Returned(maps_Intersect(heap, x, y, ord), "Intersect", "maps", x, y)

CallUnion(x, y) ==
    /\ Fresh /\ SameType(x, y)
    /\ \E o1 \in KeyOrders(heap[x]), o2 \in KeyOrders(heap[y]) :
          Returned(maps_Union(heap, x, y, o1, o2), "Union", "maps", x, y)

CallSetDiff(x, y) ==
    /\ Fresh /\ SameType(x, y)
    /\ \E ord \in KeyOrders(heap[x]) :
          Returned(maps_SetDiff(heap, x, y, ord), "SetDiff", "maps", x, y)

CallSymDiff(x, y) ==
    /\ Fresh /\ SameType(x, y)
    /\ \E o1 \in KeyOrders(heap[x]), o2 \in KeyOrders(heap[y]) :
          Returned(maps_SymDiff(heap, x, y, o1, o2), "SymDiff", "maps", x, y)

CallTypIntersect(x, y) ==
    /\ Fresh /\ SameType(x, y)
    /\ \E ord \in KeyOrders(heap[x]) :
          Returned(typ_Intersect(heap, x, y, ord), "Intersect", "typ", x, y)

CallTypUnion(x, y) ==
    /\ Fresh /\ SameType(x, y)
    /\ \E o1 \in KeyOrders(heap[x]), o2 \in KeyOrders(heap[y]) :
          Returned(typ_Union(heap, x, y, o1, o2), "Union", "typ", x, y)

CallTypSetDiff(x, y) ==
    /\ Fresh /\ SameType(x, y)
    /\ \E ord \in KeyOrders(heap[x]) :
          Returned(typ_SetDiff(heap, x, y, ord), "SetDiff", "typ", x, y)

CallTypSymDiff(x, y) ==
    /\ Fresh /\ SameType(x, y)
    /\ \E o1 \in KeyOrders(heap[x]), o2 \in KeyOrders(heap[y]) :
          Returned(typ_SymDiff(heap, x, y, o1, o2), "SymDiff", "typ", x, y)

CallCartesianProduct(x, y) ==
    /\ Fresh
    /\ \E oa \in KeyOrders(heap[x]), ob \in KeyOrders(heap[y]) :
          Returned(typ_CartesianProduct(heap, x, y, oa, ob),
                   "CartesianProduct", "typ", x, y)

Bulk(r, op, x, y) ==
    /\ heap' = r.heap
    /\ last' = [NoCall EXCEPT !.op = op, !.pkg = "maps", !.x = x, !.y = y, !.n = r.ret]
    /\ UNCHANGED <<a, b, c, present, visit, tb>>

CallAddSet(x, y) ==
    /\ Fresh /\ SameType(x, y)
    /\ \E ord \in KeyOrders(heap[y]) :
          Bulk(maps_AddSet(heap, x, y, ord), "AddSet", x, y)

CallRemoveSet(x, y) ==
    /\ Fresh /\ SameType(x, y)
    /\ \E ord \in KeyOrders(heap[y]) :
          Bulk(maps_RemoveSet(heap, x, y, ord), "RemoveSet", x, y)

NextOps ==
    \/ \E x \in {a, b}, y \in {a, b} : CallIntersect(x, y)
    \/ \E x \in {a, b}, y \in {a, b} : CallUnion(x, y)
    \/ \E x \in {a, b}, y \in {a, b} : CallSetDiff(x, y)
    \/ \E x \in {a, b}, y \in {a, b} : CallSymDiff(x, y)
    \/ \E x \in {a, b}, y \in {a, b} : CallTypIntersect(x, y)
    \/ \E x \in {a, b}, y \in {a, b} : CallTypUnion(x, y)
    \/ \E x \in {a, b}, y \in {a, b} : CallTypSetDiff(x, y)
    \/ \E x \in {a, b}, y \in {a, b} : CallTypSymDiff(x, y)
    \/ \E x \in {a, b}, y \in {a, b} : CallCartesianProduct(x, y)
    \/ \E x \in {a, b}, y \in {a, b} : CallAddSet(x, y)
    \/ \E x \in {a, b}, y \in {a, b} : CallRemoveSet(x, y)

SpecOps == InitOps /\ [][NextOps]_vars

--------------------------------------------------------------------------
(* SpecRange: Range over a set of any contents with any visitor *)

InitRange ==
    /\ a = 1
    /\ b = 1
    /\ c = 0
    /\ \E SA \in SUBSET Vals : heap = (1 :> SA)
    /\ \E st \in SUBSET Vals, k \in 0..MaxVal : visit = [stop |-> st, stopAt |-> k]
    /\ last = NoCall
    /\ present = [v \in Vals |-> FALSE]
    /\ tb = "int"

\* a.Range(visit): the visitor starts having been called with nothing.
CallRange ==
    \E ord \in KeyOrders(heap[a]) :
        /\ last' = [NoCall EXCEPT !.op = "Range", !.pkg = "maps", !.x = a,
                        !.calls = maps_Range(<<>>, ord, [kind |-> "Client", vis |-> visit])]
        /\ UNCHANGED <<heap, a, b, c, present, visit, tb>>

NextRange == CallRange

SpecRange == InitRange /\ [][NextRange]_vars

--------------------------------------------------------------------------
(* Properties *)

AlgebraOps == {"Intersect", "Union", "SetDiff", "SymDiff", "CartesianProduct"}

\* The heap the client's next call starts from: its two operands only.
Operands == [r \in {a, b} |-> heap[r]]

OtherPkg(pkg) == IF pkg = "maps" THEN "typ" ELSE "maps"

\* The call pkg.op(x, y) on heap h, its loops running in orders o1 and o2.
Apply(pkg, op, h, x, y, o1, o2) ==
    CASE pkg = "maps" /\ op = "Intersect" -> maps_Intersect(h, x, y, o1)
      [] pkg = "maps" /\ op = "Union" -> maps_Union(h, x, y, o1, o2)
      [] pkg = "maps" /\ op = "SetDiff" -> maps_SetDiff(h, x, y, o1)
      [] pkg = "maps" /\ op = "SymDiff" -> maps_SymDiff(h, x, y, o1, o2)
      [] pkg = "typ" /\ op = "Intersect" -> typ_Intersect(h, x, y, o1)
      [] pkg = "typ" /\ op = "Union" -> typ_Union(h, x, y, o1, o2)
      [] pkg = "typ" /\ op = "SetDiff" -> typ_SetDiff(h, x, y, o1)
      [] pkg = "typ" /\ op = "SymDiff" -> typ_SymDiff(h, x, y, o1, o2)

\* Every set the call pkg.op(x, y) on heap h can return, over all loop orders.
ResultsOf(pkg, op, h, x, y) ==
    {LET r == Apply(pkg, op, h, x, y, o[1], o[2]) IN r.heap[r.ret] :
        o \in KeyOrders(h[x]) \X KeyOrders(h[y])}

\* Every set Union(SetDiff(x, y), SetDiff(y, x)) can return, over all loop orders.
UnionOfDiffs(pkg, h, x, y) ==
    UNION {LET d1 == Apply(pkg, "SetDiff", h, x, y, o[1], <<>>)
               d2 == Apply(pkg, "SetDiff", d1.heap, y, x, o[2], <<>>)
           IN  ResultsOf(pkg, "Union", d2.heap, d1.ret, d2.ret) :
              o \in KeyOrders(h[x]) \X KeyOrders(h[y])}

\* C1: uniqueness invariant. Starting from the empty set a, after any sequence
\* of Add and Remove calls, Len equals the number of values whose last call
\* was an Add, and Has(v) holds exactly for those values.
C1_Uniqueness ==
    /\ maps_Len(heap, a) = Cardinality({v \in Vals : present[v]})
    /\ \A v \in Vals : /\ maps_Has(heap, a, v) = present[v]
                       /\ typ_Has(heap, a, v) = present[v]

\* C1 witness: a value was added to a and then removed, while two others remain.
C1_Witness ==
    /\ last.op = "Remove" /\ last.ok /\ last.x = a
    /\ ~present[last.v]
    /\ maps_Len(heap, a) = 2

\* C2: Add idempotence. Add(v) returns true iff v was absent before the call;
\* on a present v it changes nothing; and an Add(v) that directly follows an
\* Add(v) on the same set returns false and changes nothing.
C2_AddIdempotent ==
    [][last'.op = "Add" =>
        LET x == last'.x
            v == last'.v
            was == v \in heap[x]
        IN  /\ last'.ok = ~was
            /\ was => (heap' = heap /\ maps_Len(heap', x) = maps_Len(heap, x))
            /\ v \in heap'[x]
            /\ (last.op = "Add" /\ last.x = x /\ last.v = v)
                  => (~last'.ok /\ heap' = heap)]_vars

\* C2 witness: an Add of a value that was already in the set has returned false.
C2_Witness ==
    /\ last.op = "Add" /\ ~last.ok
    /\ last.v \in heap[last.x]
    /\ maps_Len(heap, last.x) = 2

\* C3: Clone independence. Clone returns another set with the members of the
\* original; afterwards an Add or Remove on the clone leaves the original as
\* it was, and an Add or Remove on the original leaves the clone as it was.
C3_CloneIndependent ==
    [][/\ last'.op = "Clone" =>
            /\ c' # a
            /\ heap'[c'] = heap[a]
            /\ heap'[a] = heap[a]
       /\ (last'.op \in {"Add", "Remove"} /\ c # 0) =>
            /\ last'.x = c => (heap'[a] = heap[a] /\ maps_Len(heap', a) = maps_Len(heap, a))
            /\ last'.x = a => (heap'[c] = heap[c] /\ maps_Len(heap', c) = maps_Len(heap, c))]_vars

\* C3 witness: an Add on the clone took effect and the original differs from it.
C3_Witness ==
    /\ c # 0
    /\ last.op = "Add" /\ last.ok /\ last.x = c
    /\ heap[a] # {}
    /\ last.v \notin heap[a]

\* C4: the algebra operations never mutate their operands. A call of
\* Intersect, Union, SetDiff, SymDiff or CartesianProduct returns a set that
\* did not exist before and leaves every existing set, so both operands (also
\* when they are one instance), with the members it had.
C4_OperandsUnchanged ==
    [][last'.op \in AlgebraOps =>
        /\ c' \notin DOMAIN heap
        /\ \A r \in DOMAIN heap : heap'[r] = heap[r]]_vars

\* C4 witness: a Union returned a set larger than both of its operands.
C4_Witness ==
    /\ last.op = "Union"
    /\ heap[last.x] # heap[c]
    /\ heap[last.y] # heap[c]

\* C5: the results are the set-theoretic ones. Intersect(x, y) holds the values
\* in both operands, Union(x, y) those in either, SetDiff(x, y) those in x and
\* not in y; so for {1 2 3} and {3 4 5}, and for an empty second operand, the
\* results are the documented ones.
C5_AlgebraResults ==
    [][LET op == last'.op
           X == heap[last'.x]
           Y == heap[last'.y]
           R == heap'[c']
       IN  /\ op = "Intersect" => \A v \in X \cup Y \cup R : v \in R <=> (v \in X /\ v \in Y)
           /\ op = "Union" => \A v \in X \cup Y \cup R : v \in R <=> (v \in X \/ v \in Y)
           /\ op = "SetDiff" => \A v \in X \cup Y \cup R : v \in R <=> (v \in X /\ v \notin Y)
           /\ (op \in {"Intersect", "Union", "SetDiff"} /\ last'.x # last'.y
                  /\ X = ExampleA /\ Y = ExampleB) =>
                 /\ op = "Intersect" => R = {3}
                 /\ op = "Union" => R = {1, 2, 3, 4, 5}
                 /\ op = "SetDiff" => R = {1, 2}
           /\ (op = "SetDiff" /\ last'.x # last'.y /\ X = ExampleB /\ Y = ExampleA) =>
                 R = {4, 5}
           /\ (op \in {"Intersect", "Union", "SetDiff"} /\ Y = {}) =>
                 /\ op = "Intersect" => R = {}
                 /\ op = "Union" => R = X
                 /\ op = "SetDiff" => R = X]_vars

\* C5 witness: SetDiff({3 4 5}, {1 2 3}) has returned {4 5}.
C5_Witness ==
    /\ last.op = "SetDiff" /\ last.x # last.y
    /\ heap[last.x] = ExampleB /\ heap[last.y] = ExampleA
    /\ heap[c] = {4, 5}

\* C6: commutativity. The set returned by Union, Intersect or SymDiff on (x, y)
\* has the same elements as every set the same operation can return on (y, x).
C6_Commutativity ==
    last.op \in {"Intersect", "Union", "SymDiff"} =>
        \A S \in ResultsOf(last.pkg, last.op, Operands, last.y, last.x) : S = heap[c]

\* C6 witness: an Intersect of two different, overlapping sets has returned.
C6_Witness ==
    /\ last.op = "Intersect" /\ last.x # last.y
    /\ heap[last.x] # heap[last.y]
    /\ heap[c] # {}
    /\ heap[c] # heap[last.x]
    /\ heap[c] # heap[last.y]

\* C7: Cartesian product. CartesianProduct(x, y) holds exactly the pairs of a
\* value of x and a value of y, and their number is Len(x) * Len(y).
C7_CartesianCardinality ==
    [][last'.op = "CartesianProduct" =>
        LET X == heap[last'.x]
            Y == heap[last'.y]
            R == heap'[c']
        IN  /\ R = {[A |-> p, B |-> q] : p \in X, q \in Y}
            /\ Cardinality(R) = Cardinality(X) * Cardinality(Y)]_vars

\* C7 witness: the product of a set of three ints and a set of two strings.
C7_Witness ==
    /\ last.op = "CartesianProduct"
    /\ tb = "string" /\ last.x = a /\ last.y = b
    /\ Cardinality(heap[a]) = 3 /\ Cardinality(heap[b]) = 2
    /\ Cardinality(heap[c]) = 6

\* C8: Range protocol. Range calls the visitor on members only, never twice on
\* the same one, makes no call after the first that returns false, and visits
\* every member if no call returns false; so a visitor that returns false on
\* its first call is called once on a non-empty set, and never on an empty one.
C8_RangeProtocol ==
    last.op = "Range" =>
        LET calls == last.calls
            S == heap[a]
            n == Len(calls)
        IN  /\ \A i \in 1..n : calls[i] \in S
            /\ \A i, j \in 1..n : calls[i] = calls[j] => i = j
            /\ \A i \in 1..n : i < n => Visitor(visit, i, calls[i])
            /\ (\A i \in 1..n : Visitor(visit, i, calls[i])) => {calls[i] : i \in 1..n} = S
            /\ (S # {} /\ \A v \in S : ~Visitor(visit, 1, v)) => n = 1
            /\ S = {} => n = 0

\* C8 witness: the visitor returned false on its first call, on a set of three.
C8_Witness ==
    /\ last.op = "Range"
    /\ Cardinality(heap[a]) = 3
    /\ visit.stopAt = 1
    /\ Len(last.calls) = 1

\* C9: bulk mutation counts. For distinct instances x and y, x.AddSet(y) makes
\* x the union, leaves y as it was and returns the number of values of y that
\* were not in x (the growth of Len); x.RemoveSet(y) makes x the difference,
\* leaves y as it was and returns the number of values of y that were in x.
C9_BulkCounts ==
    [][LET x == last'.x
           y == last'.y
       IN  /\ (last'.op = "AddSet" /\ x # y) =>
                 /\ heap'[x] = heap[x] \cup heap[y]
                 /\ heap'[y] = heap[y]
                 /\ last'.n = Cardinality(heap[y] \ heap[x])
                 /\ last'.n = maps_Len(heap', x) - maps_Len(heap, x)
           /\ (last'.op = "RemoveSet" /\ x # y) =>
                 /\ heap'[x] = heap[x] \ heap[y]
                 /\ heap'[y] = heap[y]
                 /\ last'.n = Cardinality(heap[y] \cap heap[x])
                 /\ last'.n = maps_Len(heap, x) - maps_Len(heap', x)]_vars

\* C9 witness: AddSet of a set of two values added one of them.
C9_Witness ==
    /\ last.op = "AddSet" /\ last.x # last.y
    /\ Cardinality(heap[last.y]) = 2
    /\ last.n = 1

\* C10: SymDiff in both packages. The set a SymDiff call returns holds exactly
\* the values in one operand and not the other; the other package's SymDiff
\* returns the same set; and so does Union(SetDiff(x, y), SetDiff(y, x)).
C10_SymDiffAgree ==
    last.op = "SymDiff" =>
        LET x == last.x
            y == last.y
            R == heap[c]
        IN  /\ R = {v \in heap[x] \cup heap[y] : (v \in heap[x]) # (v \in heap[y])}
            /\ \A S \in ResultsOf(OtherPkg(last.pkg), "SymDiff", Operands, x, y) : S = R
            /\ \A pkg \in {"maps", "typ"} :
                  \A S \in UnionOfDiffs(pkg, Operands, x, y) : S = R

\* C10 witness: typ's SymDiff of {1 2 3} and {3 4 5} has returned {1 2 4 5}.
C10_Witness ==
    /\ last.op = "SymDiff" /\ last.pkg = "typ"
    /\ heap[c] = {1, 2, 4, 5}

==========================================================================
